---------------------------- MODULE Spec2Model ----------------------------
(***************************************************************************)
(* Order placement and cancellation of the e-commerce backend              *)
(* (orderController createOrder / cancelOrder, adminController             *)
(* updateOrderStatus, cartController addToCart) over the shared store.     *)
(*                                                                         *)
(* A request handler is an async function: every `await` on the store is   *)
(* a point where other requests run, so a handler is split into one        *)
(* action per store round trip (read, transaction, notification).  A       *)
(* prisma.$transaction commits all its writes in one step or none.         *)
(* Prices are Floats in the schema; the model keeps them as integers.      *)
(***************************************************************************)
EXTENDS Integers, Sequences, FiniteSets, TLC

\* ------------------------------------------------------------------ bounds
MaxStock == 2    \* stock of a product at the start, and above which no cancellation is admitted
MaxReqs == 2     \* requests in flight at once
MaxOrders == 2   \* orders ever created
MaxUnits == 2    \* units held by carts and orders when an add is admitted
MaxAddresses == 2   \* addresses ever created

Users == {1, 2}
Products == {1, 2}
Shoppers == {1}   \* the users who shop where a specification has one shopper
Reqs == 1..MaxReqs

\* The checkout-only specification admits larger carts
CheckoutUnits == MaxUnits + 2

\* OrderStatus enum of the schema
OrderStatus == {"PENDING", "PROCESSING", "SHIPPED", "DELIVERED", "CANCELLED"}

\* Stock of the catalog when the system starts: product 1 is down to its
\* last unit, every other product holds MaxStock units.
InitStock(p) == IF p = 1 THEN 1 ELSE MaxStock

\* Catalog price of a product (Product.price)
InitPrice(p) == 5 * p

VARIABLES
    stock,       \* Product.stock, per product
    price,       \* Product.price, per product
    cart,        \* per user: [exists, items], items a sequence of CartItem
    orders,      \* sequence of Order; an order's id is its index
    orderItems,  \* sequence of OrderItem
    req,         \* per request slot: the handler's position, locals, response
                 \* and the outcome of its notification email
    released,    \* history: units given back per product by committed cancellations
    reviews,     \* sequence of Review: [userId, productId]
    addresses    \* sequence of Address: [userId, isDefault, live]; an address's
                 \* id is its index, a deleted address is no longer live

vars == <<stock, price, cart, orders, orderItems, req, released, reviews, addresses>>

NoErr == [productId |-> 0, available |-> 0, requested |-> 0]

\* Locals of the cart, review and address handlers
NoLoc == [productId |-> 0, quantity |-> 0, found |-> 0, stock |-> 0, price |-> 0,
          isDefault |-> FALSE]

IdleReq == [kind |-> "none", user |-> 0, pc |-> "idle", items |-> <<>>,
            total |-> 0, oid |-> 0, resp |-> "none", err |-> NoErr,
            mail |-> "none", loc |-> NoLoc, view |-> <<>>]

\* ----------------------------------------------------------------- helpers

\* The total with the quantity left out of each term
RECURSIVE TotalAmountNoQty(_)
TotalAmountNoQty(items) ==
    IF items = <<>> THEN 0
    ELSE TotalAmountNoQty(SubSeq(items, 1, Len(items) - 1)) + items[Len(items)].price

\* cart.items.reduce((sum, item) => sum + item.price * item.quantity, 0)
RECURSIVE TotalAmount(_)
TotalAmount(items) ==
    IF items = <<>> THEN 0
    ELSE TotalAmount(SubSeq(items, 1, Len(items) - 1))
         + items[Len(items)].price * items[Len(items)].quantity

\* The stock check reporting the last item that lacks stock
LastInsufficient(items) ==
    LET bad == {i \in 1..Len(items) : items[i].quantity > items[i].stock}
    IN IF bad = {} THEN 0 ELSE CHOOSE i \in bad : \A j \in bad : i >= j

\* for (const item of cart.items) if (item.quantity > item.product.stock) ...
\* index of the first item that lacks stock, 0 when every item is in stock
FirstInsufficient(items) ==
    LET bad == {i \in 1..Len(items) : items[i].quantity > items[i].stock}
    IN IF bad = {} THEN 0 ELSE CHOOSE i \in bad : \A j \in bad : i <= j

\* include: { items: ... } of an order read
OrderItemsOf(oi, id) == SelectSeq(oi, LAMBDA it : it.orderId = id)

\* ------------------------------------------------------------ transactions

DB == [stock |-> stock, cart |-> cart, orders |-> orders, orderItems |-> orderItems]

\* The writes with the stock decrement done as a read-modify-write of the
\* stock the handler read before the transaction
ApplyWriteRMW(db, w) ==
    CASE w.op = "order.create" ->
           [db EXCEPT !.orders = Append(@, [userId |-> w.userId,
                                            totalAmount |-> w.totalAmount,
                                            status |-> "PENDING"])]
      [] w.op = "orderItem.create" ->
           [db EXCEPT !.orderItems = Append(@, [orderId |-> w.orderId,
                                                productId |-> w.productId,
                                                quantity |-> w.quantity,
                                                price |-> w.price])]
      [] w.op = "product.decrement" ->
           [db EXCEPT !.stock[w.productId] = w.seen - w.quantity]
      [] w.op = "product.increment" ->
           [db EXCEPT !.stock[w.productId] = @ + w.quantity]
      [] w.op = "cartItem.deleteMany" ->
           [db EXCEPT !.cart[w.userId].items = <<>>]
      [] w.op = "order.update" ->
           [db EXCEPT !.orders[w.orderId].status = w.status]

\* One write of a transaction applied to the store
ApplyWrite(db, w) ==
    CASE w.op = "order.create" ->
           [db EXCEPT !.orders = Append(@, [userId |-> w.userId,
                                            totalAmount |-> w.totalAmount,
                                            status |-> "PENDING"])]
      [] w.op = "orderItem.create" ->
           [db EXCEPT !.orderItems = Append(@, [orderId |-> w.orderId,
                                                productId |-> w.productId,
                                                quantity |-> w.quantity,
                                                price |-> w.price])]
      [] w.op = "product.decrement" ->    \* stock: { decrement: item.quantity }
           [db EXCEPT !.stock[w.productId] = @ - w.quantity]
      [] w.op = "product.increment" ->
           [db EXCEPT !.stock[w.productId] = @ + w.quantity]
      [] w.op = "cartItem.deleteMany" ->
           [db EXCEPT !.cart[w.userId].items = <<>>]
      [] w.op = "order.update" ->
           [db EXCEPT !.orders[w.orderId].status = w.status]

RECURSIVE RunWrites(_, _, _)
RunWrites(db, ws, n) ==
    IF n = 0 THEN db ELSE ApplyWrite(RunWrites(db, ws, n - 1), ws[n])

\* The same writes outside a transaction: the writes before the failing one stay.
TransactionNoRollback(db, ws, failAt) ==
    IF failAt = 0 THEN RunWrites(db, ws, Len(ws)) ELSE RunWrites(db, ws, failAt - 1)

\* The first write issued before the transaction opens: it stays when a
\* later write throws.
TransactionAfterFirstWrite(db, ws, failAt) ==
    IF failAt = 0 THEN RunWrites(db, ws, Len(ws))
    ELSE IF failAt = 1 THEN db ELSE RunWrites(db, ws, 1)

\* prisma.$transaction(async (tx) => ...): failAt = 0 commits every write,
\* failAt = k means write k throws and the store is left as it was.
Transaction(db, ws, failAt) ==
    IF failAt = 0 THEN RunWrites(db, ws, Len(ws)) ELSE db

\* The writes of createOrder's transaction, in program order
RECURSIVE ItemWrites(_, _)
ItemWrites(items, id) ==
    IF items = <<>> THEN <<>>
    ELSE LET it == Head(items)
         IN << [op |-> "orderItem.create", orderId |-> id, productId |-> it.productId,
                quantity |-> it.quantity, price |-> it.price],
               [op |-> "product.decrement", productId |-> it.productId,
                quantity |-> it.quantity, seen |-> it.stock] >>
            \o ItemWrites(Tail(items), id)

\* createOrder's writes without the cart deletion
CreateOrderWritesKeepCart(u, total, items, id) ==
    << [op |-> "order.create", userId |-> u, totalAmount |-> total] >>
    \o ItemWrites(items, id)

CreateOrderWrites(u, total, items, id) ==
    << [op |-> "order.create", userId |-> u, totalAmount |-> total] >>
    \o ItemWrites(items, id)
    \o << [op |-> "cartItem.deleteMany", userId |-> u] >>

\* cancelOrder's writes without the stock releases
CancelOrderWritesNoRelease(id, items) ==
    << [op |-> "order.update", orderId |-> id, status |-> "CANCELLED"] >>

\* The writes of cancelOrder's transaction, in program order
CancelOrderWrites(id, items) ==
    << [op |-> "order.update", orderId |-> id, status |-> "CANCELLED"] >>
    \o [i \in 1..Len(items) |->
          [op |-> "product.increment", productId |-> items[i].productId,
           quantity |-> items[i].quantity]]

\* -------------------------------------------------------------------- Init

Init ==
    /\ stock = [p \in Products |-> InitStock(p)]
    /\ price = [p \in Products |-> InitPrice(p)]
    /\ cart = [u \in Users |-> [exists |-> FALSE, items |-> <<>>]]
    /\ orders = <<>>
    /\ orderItems = <<>>
    /\ req = [r \in Reqs |-> IdleReq]
    /\ released = [p \in Products |-> 0]
    /\ reviews = <<>>
    /\ addresses = <<>>

\* A handler that returns with an email dispatched whatever its response
DoneMailed(q, resp) == [IdleReq EXCEPT !.kind = q.kind, !.user = q.user, !.oid = q.oid,
                                       !.pc = "done", !.resp = resp, !.mail = "sent"]

\* The handler returns: its locals are gone, the response stays
Done(q, resp) == [IdleReq EXCEPT !.kind = q.kind, !.user = q.user, !.oid = q.oid,
                                 !.pc = "done", !.resp = resp]

\* A handler that keeps awaiting an email whose send failed
AfterEmailHangs(q, sent) ==
    IF sent THEN [Done(q, "Success") EXCEPT !.mail = "sent"]
    ELSE [q EXCEPT !.pc = "waiting"]

\* A handler in which a failed send is raised to the caller
AfterEmailRaises(q, sent) ==
    IF sent THEN [Done(q, "Success") EXCEPT !.mail = "sent"]
    ELSE [Done(q, "EmailError") EXCEPT !.mail = "failed"]

\* await send...Email(...); res.status(...).json({ status: 'success' }):
\* sendEmail returns true when sgMail.send resolves; when it throws, the
\* error is caught and logged and sendEmail returns false; the handler
\* ignores the result and answers success
AfterEmail(q, sent) ==
    [Done(q, "Success") EXCEPT !.mail = IF sent THEN "sent" ELSE "failed"]

\* No handler is at its return: the response of a handler that has finished
\* is sent (respond) before the store serves anything else
Quiet == \A r \in Reqs : req[r].pc # "done"

\* A request takes the lowest free slot
Free(r) == Quiet /\ req[r].pc = "idle" /\ \A r2 \in 1..(r - 1) : req[r2].pc # "idle"

\* Bound on the orders ever created: a checkout goes on to its transaction
\* while the orders and the checkouts in flight stay within MaxOrders
InFlight == {r \in Reqs : req[r].kind = "create" /\ req[r].pc = "tx"}
OrderRoom == Len(orders) + Cardinality(InFlight) < MaxOrders

\* Bound on the units in carts and orders: an add is admitted while they fit
RECURSIVE Units(_)
Units(items) == IF items = <<>> THEN 0 ELSE Head(items).quantity + Units(Tail(items))

\* units of product p among items
UnitsOf(items, p) == Units(SelectSeq(items, LAMBDA it : it.productId = p))

RECURSIVE CartUnits(_)
CartUnits(us) ==
    IF us = {} THEN 0
    ELSE LET u == CHOOSE x \in us : TRUE
         IN Units(cart[u].items) + CartUnits(us \ {u})

UnitRoom(q, max) == CartUnits(Users) + Units(orderItems) + q <= max

\* Bound on the stock: a cancellation is admitted while no stock exceeds MaxStock
StockRoom == \A p \in Products : stock[p] <= MaxStock

\* ------------------------------------------------------------------- cart

\* index of the first cart item of product p, 0 when there is none
ExistingItem(items, p) ==
    LET is == {i \in 1..Len(items) : items[i].productId = p}
    IN IF is = {} THEN 0 ELSE CHOOSE i \in is : \A j \in is : i <= j

\* ids of the cart items
ItemIds(items) == {items[i].id : i \in 1..Len(items)}

\* index of the cart item with this id, 0 when it is gone
IndexOfId(items, id) ==
    LET is == {i \in 1..Len(items) : items[i].id = id}
    IN IF is = {} THEN 0 ELSE CHOOSE i \in is : TRUE

\* @default(auto()) id of a new cart item: an id that no item of the cart
\* has and that no request in flight of the user still refers to
FreshItemId(u) ==
    LET used == ItemIds(cart[u].items)
                \cup {req[r].loc.found : r \in {x \in Reqs : req[x].user = u}}
    IN CHOOSE n \in 1..(Cardinality(used) + 1) :
          n \notin used /\ \A m \in 1..(n - 1) : m \in used

\* validateCartItem: quantity is a positive integer
ValidQuantity(q) == q >= 1

\* The handler run without another request in between
addToCart(u, p, q) ==
    /\ Quiet
    /\ ValidQuantity(q)
    /\ q <= stock[p]
    /\ LET items == cart[u].items
           i == ExistingItem(items, p)
       IN IF i # 0
          THEN IF items[i].quantity + q > stock[p]
               THEN cart' = [cart EXCEPT ![u].exists = TRUE]
               ELSE cart' = [cart EXCEPT ![u].exists = TRUE,
                                         ![u].items[i].quantity = @ + q,
                                         ![u].items[i].price = price[p]]
          ELSE cart' = [cart EXCEPT ![u].exists = TRUE,
                                    ![u].items = Append(@, [id |-> FreshItemId(u),
                                                            productId |-> p,
                                                            quantity |-> q,
                                                            price |-> price[p]])]
    /\ UNCHANGED <<stock, price, orders, orderItems, req, released, reviews, addresses>>

\* The response of a cart handler: its requested quantity stays readable
CartDone(q, resp, quantity) == [Done(q, resp) EXCEPT !.loc.quantity = quantity]

\* addToCart up to its write: validateCartItem, product.findUnique and the
\* stock check, cart.findUnique / cart.create, cartItem.findFirst and the
\* check of the new quantity
addToCartFind(r, u, p, q) ==
    /\ Free(r)
    /\ LET base == [IdleReq EXCEPT !.kind = "addToCart", !.user = u]
           items == cart[u].items
           i == ExistingItem(items, p)
       IN IF ~ValidQuantity(q) \/ q > stock[p]
          THEN /\ req' = [req EXCEPT ![r] = CartDone(base, "ValidationError", q)]
               /\ cart' = cart
          ELSE /\ cart' = [cart EXCEPT ![u].exists = TRUE]
               /\ req' = [req EXCEPT ![r] =
                    IF i # 0
                    THEN IF items[i].quantity + q > stock[p]
                         THEN CartDone(base, "ValidationError", q)
                         ELSE [base EXCEPT !.pc = "save",
                                           !.loc = [NoLoc EXCEPT !.productId = p,
                                                      !.quantity = items[i].quantity + q,
                                                      !.found = items[i].id,
                                                      !.price = price[p]]]
                    ELSE [base EXCEPT !.pc = "save",
                                      !.loc = [NoLoc EXCEPT !.productId = p,
                                                 !.quantity = q,
                                                 !.price = price[p]]]]
    /\ UNCHANGED <<stock, price, orders, orderItems, released, reviews, addresses>>

\* addToCart's write: cartItem.update of the item found (it throws when the
\* item is gone) or cartItem.create
addToCartSave(r) ==
    /\ Quiet
    /\ req[r].kind = "addToCart" /\ req[r].pc = "save"
    /\ LET u == req[r].user
           l == req[r].loc
           i == IndexOfId(cart[u].items, l.found)
       IN IF l.found # 0
          THEN IF i = 0
               THEN /\ cart' = cart
                    /\ req' = [req EXCEPT ![r] = Done(@, "TxError")]
               ELSE /\ cart' = [cart EXCEPT ![u].items[i].quantity = l.quantity,
                                            ![u].items[i].price = l.price]
                    /\ req' = [req EXCEPT ![r] = Done(@, "Success")]
          ELSE /\ cart' = [cart EXCEPT ![u].items =
                             Append(@, [id |-> FreshItemId(u), productId |-> l.productId,
                                        quantity |-> l.quantity, price |-> l.price])]
               /\ req' = [req EXCEPT ![r] = Done(@, "Success")]
    /\ UNCHANGED <<stock, price, orders, orderItems, released, reviews, addresses>>

\* The quantity check of updateCartItem letting 0 through
ValidUpdateNonNegative(q) == q >= 0

\* if (!req.body.quantity) ...; if (isNaN(quantity) || quantity < 1) ...
ValidUpdate(q) == q # 0 /\ q >= 1

\* PATCH /cart/:id with its response: the quantity check, cart.findUnique,
\* cartItem.findFirst({ id, cartId }), the stock check, cartItem.update
updateCartItemRequest(r, u, id, q) ==
    /\ Free(r)
    /\ LET base == [IdleReq EXCEPT !.kind = "updateCartItem", !.user = u]
           i == IndexOfId(cart[u].items, id)
       IN IF ~ValidUpdate(q)
          THEN cart' = cart /\ req' = [req EXCEPT ![r] = CartDone(base, "ValidationError", q)]
          ELSE IF ~cart[u].exists \/ i = 0
          THEN cart' = cart /\ req' = [req EXCEPT ![r] = CartDone(base, "NotFound", q)]
          ELSE IF q > stock[cart[u].items[i].productId]
          THEN cart' = cart /\ req' = [req EXCEPT ![r] = CartDone(base, "ValidationError", q)]
          ELSE /\ cart' = [cart EXCEPT ![u].items[i].quantity = q]
               /\ req' = [req EXCEPT ![r] = CartDone(base, "Success", q)]
    /\ UNCHANGED <<stock, price, orders, orderItems, released, reviews, addresses>>

\* a sequence without its element i
RemoveAt(items, i) == SubSeq(items, 1, i - 1) \o SubSeq(items, i + 1, Len(items))

\* DELETE /cart/:id : cart.findUnique, cartItem.findFirst, cartItem.delete
removeFromCart(r, u, id) ==
    /\ Free(r)
    /\ LET base == [IdleReq EXCEPT !.kind = "removeFromCart", !.user = u]
           i == IndexOfId(cart[u].items, id)
       IN IF ~cart[u].exists \/ i = 0
          THEN cart' = cart /\ req' = [req EXCEPT ![r] = Done(base, "NotFound")]
          ELSE /\ cart' = [cart EXCEPT ![u].items = RemoveAt(@, i)]
               /\ req' = [req EXCEPT ![r] = Done(base, "Success")]
    /\ UNCHANGED <<stock, price, orders, orderItems, released, reviews, addresses>>

\* DELETE /cart : cart.findUnique, cartItem.deleteMany({ cartId })
clearCart(r, u) ==
    /\ Free(r)
    /\ LET base == [IdleReq EXCEPT !.kind = "clearCart", !.user = u]
       IN IF ~cart[u].exists
          THEN cart' = cart /\ req' = [req EXCEPT ![r] = Done(base, "NotFound")]
          ELSE /\ cart' = [cart EXCEPT ![u].items = <<>>]
               /\ req' = [req EXCEPT ![r] = Done(base, "Success")]
    /\ UNCHANGED <<stock, price, orders, orderItems, released, reviews, addresses>>

\* cartItem.update({ where: { id }, data: { quantity } }) on item i of the
\* user's cart; a quantity below 1 or above the product's stock is refused
updateCartItem(u, i, q) ==
    /\ Quiet
    /\ cart[u].exists
    /\ i \in 1..Len(cart[u].items)
    /\ q >= 1
    /\ q <= stock[cart[u].items[i].productId]
    /\ cart' = [cart EXCEPT ![u].items[i].quantity = q]
    /\ UNCHANGED <<stock, price, orders, orderItems, req, released, reviews, addresses>>

\* ---------------------------------------------------------------- catalog

\* Prices the admin gives to products
Prices == {InitPrice(k) : k \in Products}

\* updateProduct with a body holding a price: product.update({ data: { price } })
updateProduct(p, newPrice) ==
    /\ Quiet
    /\ price' = [price EXCEPT ![p] = newPrice]
    /\ UNCHANGED <<stock, cart, orders, orderItems, req, released, reviews, addresses>>

\* ------------------------------------------------------------ createOrder

\* The price of a line taken from the catalog at checkout
CatalogPrice(item) == price[item.productId]

\* item.price of a cart item read at checkout
ItemPrice(item) == item.price

\* The empty-cart check testing only that the cart exists
EmptyCartOnlyMissing(c) == ~c.exists

\* if (!cart || cart.items.length === 0)
EmptyCart(c) == ~c.exists \/ Len(c.items) = 0

\* cart.findUnique with items and their products, the empty-cart check, the
\* stock check and the total
createOrderRead(r, u) ==
    /\ Free(r)
    /\ LET c == cart[u]
           snap == [i \in 1..Len(c.items) |->
                      [productId |-> c.items[i].productId,
                       quantity |-> c.items[i].quantity,
                       price |-> ItemPrice(c.items[i]),
                       stock |-> stock[c.items[i].productId]]]
           k == FirstInsufficient(snap)
           base == [IdleReq EXCEPT !.kind = "create", !.user = u]
       IN /\ EmptyCart(c) \/ k # 0 \/ OrderRoom
          /\ req' = [req EXCEPT ![r] =
            IF EmptyCart(c)
            THEN [base EXCEPT !.pc = "done", !.resp = "EmptyCart"]
            ELSE IF k # 0
            THEN [base EXCEPT !.pc = "done", !.resp = "InsufficientStock",
                              !.err = [productId |-> snap[k].productId,
                                       available |-> snap[k].stock,
                                       requested |-> snap[k].quantity]]
            ELSE [base EXCEPT !.pc = "tx", !.items = snap,
                              !.total = TotalAmount(snap)]]
    /\ UNCHANGED <<stock, price, cart, orders, orderItems, released, reviews, addresses>>

createOrderTx(r) ==
    /\ Quiet
    /\ req[r].kind = "create" /\ req[r].pc = "tx"
    /\ LET id == Len(orders) + 1
           ws == CreateOrderWrites(req[r].user, req[r].total, req[r].items, id)
       IN \E failAt \in 0..Len(ws) :
            LET db == Transaction(DB, ws, failAt)
            IN /\ stock' = db.stock
               /\ cart' = db.cart
               /\ orders' = db.orders
               /\ orderItems' = db.orderItems
               /\ req' = [req EXCEPT ![r] =
                    IF failAt = 0
                    THEN [@ EXCEPT !.pc = "email", !.oid = id]
                    ELSE Done(@, "TxError")]
    /\ UNCHANGED <<price, released, reviews, addresses>>

\* order.findUnique, sendOrderConfirmationEmail (sendEmail catches a failed
\* send and returns false), res.status(201)
createOrderEmail(r) ==
    /\ Quiet
    /\ req[r].kind = "create" /\ req[r].pc = "email"
    /\ \E sent \in BOOLEAN :
         req' = [req EXCEPT ![r] = AfterEmail(@, sent)]
    /\ UNCHANGED <<stock, price, cart, orders, orderItems, released, reviews, addresses>>

\* ------------------------------------------------------------ cancelOrder

\* The order lookup by id alone
FindOrderAnyUser(os, id, u) == id <= Len(os)

\* prisma.order.findFirst({ where: { id, userId: req.user.id } }) finds an order
FindOrder(os, id, u) == IF id <= Len(os) THEN os[id].userId = u ELSE FALSE

\* The status check letting a shipped order through
NotCancellableAfterShipping(status) == status # "PENDING" /\ status # "PROCESSING"
                                         /\ status # "SHIPPED"

\* if (order.status !== 'PENDING' && order.status !== 'PROCESSING')
NotCancellable(status) == status # "PENDING" /\ status # "PROCESSING"

\* order.findFirst({id, userId}) with its items, and the status check
cancelOrderRead(r, u, id) ==
    /\ Free(r)
    /\ StockRoom
    /\ LET found == FindOrder(orders, id, u)
           base == [IdleReq EXCEPT !.kind = "cancel", !.user = u, !.oid = id]
       IN req' = [req EXCEPT ![r] =
            IF ~found
            THEN [base EXCEPT !.pc = "done", !.resp = "NotFound"]
            ELSE IF NotCancellable(orders[id].status)
            THEN [base EXCEPT !.pc = "done", !.resp = "InvalidTransition"]
            ELSE [base EXCEPT !.pc = "tx", !.items = OrderItemsOf(orderItems, id)]]
    /\ UNCHANGED <<stock, price, cart, orders, orderItems, released, reviews, addresses>>

cancelOrderTx(r) ==
    /\ Quiet
    /\ req[r].kind = "cancel" /\ req[r].pc = "tx"
    /\ LET ws == CancelOrderWrites(req[r].oid, req[r].items)
       IN \E failAt \in 0..Len(ws) :
            LET db == Transaction(DB, ws, failAt)
            IN /\ stock' = db.stock
               /\ cart' = db.cart
               /\ orders' = db.orders
               /\ orderItems' = db.orderItems
               /\ req' = [req EXCEPT ![r] =
                    IF failAt = 0
                    THEN [@ EXCEPT !.pc = "email"]
                    ELSE Done(@, "TxError")]
               /\ released' = IF failAt = 0
                               THEN [p \in Products |-> released[p] + UnitsOf(req[r].items, p)]
                               ELSE released
    /\ UNCHANGED <<price, reviews, addresses>>

\* sendOrderStatusUpdateEmail, res.status(200)
cancelOrderEmail(r) ==
    /\ Quiet
    /\ req[r].kind = "cancel" /\ req[r].pc = "email"
    /\ \E sent \in BOOLEAN :
         req' = [req EXCEPT ![r] = AfterEmail(@, sent)]
    /\ UNCHANGED <<stock, price, cart, orders, orderItems, released, reviews, addresses>>

\* ----------------------------------------------------------- admin routes

\* User.role: user 2 is the administrator, every other user a customer
Role(u) == IF u = 2 THEN "ADMIN" ELSE "CUSTOMER"

\* The middleware letting every authenticated user through
restrictToAnyone(roles, role) == TRUE

\* restrictTo(...roles): roles.includes(req.user.role)
restrictTo(roles, role) == role \in roles

\* PATCH /api/admin/orders/:id/status behind protect and restrictTo('ADMIN')
patchOrderStatus(r, u, id, status) ==
    /\ Free(r)
    /\ LET base == [IdleReq EXCEPT !.kind = "patchOrderStatus", !.user = u, !.oid = id]
       IN IF ~restrictTo({"ADMIN"}, Role(u))
          THEN orders' = orders /\ req' = [req EXCEPT ![r] = Done(base, "AuthenticationError")]
          ELSE IF id > Len(orders)
          THEN orders' = orders /\ req' = [req EXCEPT ![r] = Done(base, "NotFound")]
          ELSE /\ orders' = [orders EXCEPT ![id].status = status]
               /\ req' = [req EXCEPT ![r] = Done(base, "Success")]
    /\ UNCHANGED <<stock, price, cart, orderItems, released, reviews, addresses>>

\* PATCH /api/products/:id behind protect and restrictTo('ADMIN'), with a
\* body holding a price
patchProduct(r, u, p, newPrice) ==
    /\ Free(r)
    /\ LET base == [IdleReq EXCEPT !.kind = "patchProduct", !.user = u]
       IN IF ~restrictTo({"ADMIN"}, Role(u))
          THEN price' = price /\ req' = [req EXCEPT ![r] = Done(base, "AuthenticationError")]
          ELSE /\ price' = [price EXCEPT ![p] = newPrice]
               /\ req' = [req EXCEPT ![r] = Done(base, "Success")]
    /\ UNCHANGED <<stock, cart, orders, orderItems, released, reviews, addresses>>

\* ------------------------------------------------------------ order reads

\* limit of getUserOrders when the query gives none
DefaultLimit == 10

\* a set of order ids as a sequence, newest (highest) first
RECURSIVE Desc(_)
Desc(ids) ==
    IF ids = {} THEN <<>>
    ELSE LET m == CHOOSE i \in ids : \A j \in ids : i >= j
         IN <<m>> \o Desc(ids \ {m})

\* The order list without its where clause
FindManyAll(os, u) == Desc(1..Len(os))

\* prisma.order.findMany({ where: { userId }, orderBy: { createdAt: 'desc' } })
FindMany(os, u) == Desc({id \in 1..Len(os) : os[id].userId = u})

\* skip, take of findMany
Page(ids, skip, take) ==
    SubSeq(ids, skip + 1, IF skip + take < Len(ids) THEN skip + take ELSE Len(ids))

\* GET /orders/:id : findFirst({ id, userId }), 404 when there is none
getOrder(r, u, id) ==
    /\ Free(r)
    /\ req' = [req EXCEPT ![r] =
          [IdleReq EXCEPT !.kind = "getOrder", !.user = u, !.oid = id, !.pc = "done",
                          !.resp = IF FindOrder(orders, id, u) THEN "Success" ELSE "NotFound",
                          !.view = IF FindOrder(orders, id, u) THEN <<id>> ELSE <<>>]]
    /\ UNCHANGED <<stock, price, cart, orders, orderItems, released, reviews, addresses>>

\* GET /orders?page&limit : the user's orders, newest first, one page
getUserOrders(r, u, page, limit) ==
    /\ Free(r)
    /\ req' = [req EXCEPT ![r] =
          [IdleReq EXCEPT !.kind = "getUserOrders", !.user = u, !.pc = "done",
                          !.resp = "Success",
                          !.view = Page(FindMany(orders, u), (page - 1) * limit, limit)]]
    /\ UNCHANGED <<stock, price, cart, orders, orderItems, released, reviews, addresses>>

\* GET /users/orders : the user's orders, newest first
getOrders(r, u) ==
    /\ Free(r)
    /\ req' = [req EXCEPT ![r] =
          [IdleReq EXCEPT !.kind = "getOrders", !.user = u, !.pc = "done",
                          !.resp = "Success", !.view = FindMany(orders, u)]]
    /\ UNCHANGED <<stock, price, cart, orders, orderItems, released, reviews, addresses>>

\* ------------------------------------------------------ updateOrderStatus

\* The status update writing a whole order record, its total reset
updateOrderStatusOverwrites(id, status) ==
    /\ Quiet
    /\ id <= Len(orders)
    /\ orders' = [orders EXCEPT ![id].status = status, ![id].totalAmount = 0]
    /\ UNCHANGED <<stock, price, cart, orderItems, req, released, reviews, addresses>>

\* admin: order.findUnique, then order.update({ data: { status } })
updateOrderStatus(id, status) ==
    /\ Quiet
    /\ id <= Len(orders)
    /\ orders' = [orders EXCEPT ![id].status = status]
    /\ UNCHANGED <<stock, price, cart, orderItems, req, released, reviews, addresses>>

\* res.status(...).json(...) / next(err): the response leaves, the slot is free
respond(r) ==
    /\ req[r].pc = "done"
    /\ req' = [req EXCEPT ![r] = IdleReq]
    /\ UNCHANGED <<stock, price, cart, orders, orderItems, released, reviews, addresses>>

\* -------------------------------------------------------------------- Next

Next ==
    \/ \E u \in Users, p \in Products, q \in 1..MaxStock :
          UnitRoom(q, MaxUnits) /\ addToCart(u, p, q)
    \/ \E r \in Reqs, u \in Users : createOrderRead(r, u)
    \/ \E r \in Reqs : createOrderTx(r)
    \/ \E r \in Reqs : createOrderEmail(r)
    \/ \E r \in Reqs, u \in Users, id \in 1..(Len(orders) + 1) : cancelOrderRead(r, u, id)
    \/ \E r \in Reqs : cancelOrderTx(r)
    \/ \E r \in Reqs : cancelOrderEmail(r)
    \/ \E id \in 1..MaxOrders, s \in OrderStatus : updateOrderStatus(id, s)
    \/ \E r \in Reqs : respond(r)

Spec == Init /\ [][Next]_vars

\* Checkout alone, with larger carts: addToCart and createOrder
NextCheckout ==
    \/ \E u \in Users, p \in Products, q \in 1..MaxStock :
          UnitRoom(q, CheckoutUnits) /\ addToCart(u, p, q)
    \/ \E r \in Reqs, u \in Users : createOrderRead(r, u)
    \/ \E r \in Reqs : createOrderTx(r)
    \/ \E r \in Reqs : createOrderEmail(r)
    \/ \E r \in Reqs : respond(r)

SpecCheckout == Init /\ [][NextCheckout]_vars


\* Carts, catalog prices and checkout: addToCart, updateCartItem, the
\* admin's updateProduct, createOrder
NextPricing ==
    \/ \E u \in Users, p \in Products, q \in 1..MaxStock :
          UnitRoom(q, MaxUnits) /\ addToCart(u, p, q)
    \/ \E u \in Users, q \in 1..MaxStock :
          \E i \in 1..Len(cart[u].items) :
             UnitRoom(q - cart[u].items[i].quantity, MaxUnits) /\ updateCartItem(u, i, q)
    \/ \E p \in Products, newPrice \in Prices : updateProduct(p, newPrice)
    \/ \E r \in Reqs, u \in Users : createOrderRead(r, u)
    \/ \E r \in Reqs : createOrderTx(r)
    \/ \E r \in Reqs : createOrderEmail(r)
    \/ \E r \in Reqs : respond(r)

SpecPricing == Init /\ [][NextPricing]_vars

\* Checkout by every user and the reads of orders
NextReads ==
    \/ \E u \in Users, p \in Products, q \in 1..MaxStock :
          UnitRoom(q, MaxUnits) /\ addToCart(u, p, q)
    \/ \E r \in Reqs, u \in Users : createOrderRead(r, u)
    \/ \E r \in Reqs : createOrderTx(r)
    \/ \E r \in Reqs : createOrderEmail(r)
    \/ \E r \in Reqs, u \in Users, id \in 1..(Len(orders) + 1) : getOrder(r, u, id)
    \/ \E r \in Reqs, u \in Users, page \in 1..MaxOrders, limit \in {1, DefaultLimit} :
          getUserOrders(r, u, page, limit)
    \/ \E r \in Reqs, u \in Users : getOrders(r, u)
    \/ \E r \in Reqs : respond(r)

SpecReads == Init /\ [][NextReads]_vars

\* Placement and cancellation by one shopper, with the store and the
\* notification service answering every call they are given: a handler
\* awaiting its transaction or its email is resumed (strong fairness, as
\* the step is not taken while another response is being sent), and a
\* response that is ready is sent.
NextLive ==
    \/ \E u \in Shoppers, p \in Products, q \in 1..MaxStock :
          UnitRoom(q, MaxUnits) /\ addToCart(u, p, q)
    \/ \E r \in Reqs, u \in Shoppers : createOrderRead(r, u)
    \/ \E r \in Reqs : createOrderTx(r)
    \/ \E r \in Reqs : createOrderEmail(r)
    \/ \E r \in Reqs, u \in Shoppers, id \in 1..(Len(orders) + 1) : cancelOrderRead(r, u, id)
    \/ \E r \in Reqs : cancelOrderTx(r)
    \/ \E r \in Reqs : cancelOrderEmail(r)
    \/ \E r \in Reqs : respond(r)

Fairness ==
    \A r \in Reqs :
        /\ SF_vars(createOrderTx(r))
        /\ SF_vars(createOrderEmail(r))
        /\ SF_vars(cancelOrderTx(r))
        /\ SF_vars(cancelOrderEmail(r))
        /\ WF_vars(respond(r))

SpecLive == Init /\ [][NextLive]_vars /\ Fairness

\* The cart of one shopper under concurrent requests: addToCart split at its
\* write, updateCartItem, removeFromCart, clearCart and createOrder
QuantityInputs == (0 - 1)..MaxStock

NextCart ==
    \/ \E r \in Reqs, u \in Shoppers, p \in Products, q \in QuantityInputs :
          UnitRoom(q, MaxUnits) /\ addToCartFind(r, u, p, q)
    \/ \E r \in Reqs : addToCartSave(r)
    \/ \E r \in Reqs, u \in Shoppers, id \in 1..MaxUnits, q \in QuantityInputs :
          UnitRoom(q, MaxUnits + 1) /\ updateCartItemRequest(r, u, id, q)
    \/ \E r \in Reqs, u \in Shoppers, id \in 1..MaxUnits : removeFromCart(r, u, id)
    \/ \E r \in Reqs, u \in Shoppers : clearCart(r, u)
    \/ \E r \in Reqs, u \in Shoppers : createOrderRead(r, u)
    \/ \E r \in Reqs : createOrderTx(r)
    \/ \E r \in Reqs : createOrderEmail(r)
    \/ \E r \in Reqs : respond(r)

SpecCart == Init /\ [][NextCart]_vars

\* The admin routes called by every user, over the orders of one shopper
NextAdmin ==
    \/ \E u \in Shoppers, p \in Products, q \in 1..MaxStock :
          UnitRoom(q, MaxUnits - 1) /\ addToCart(u, p, q)
    \/ \E r \in Reqs, u \in Shoppers : createOrderRead(r, u)
    \/ \E r \in Reqs : createOrderTx(r)
    \/ \E r \in Reqs : createOrderEmail(r)
    \/ \E r \in Reqs, u \in Users, id \in 1..MaxOrders, status \in OrderStatus :
          patchOrderStatus(r, u, id, status)
    \/ \E r \in Reqs, u \in Users, p \in Products, newPrice \in Prices :
          patchProduct(r, u, p, newPrice)
    \/ \E r \in Reqs : respond(r)

SpecAdmin == Init /\ [][NextAdmin]_vars

\* The order lifecycle with one shopper: user 1 fills a cart and checks out,
\* every user sends cancellations, the admin sets statuses

NextLifecycle ==
    \/ \E u \in Shoppers, p \in Products, q \in 1..MaxStock :
          UnitRoom(q, MaxUnits) /\ addToCart(u, p, q)
    \/ \E r \in Reqs, u \in Shoppers : createOrderRead(r, u)
    \/ \E r \in Reqs : createOrderTx(r)
    \/ \E r \in Reqs : createOrderEmail(r)
    \/ \E r \in Reqs, u \in Users, id \in 1..(Len(orders) + 1) : cancelOrderRead(r, u, id)
    \/ \E r \in Reqs : cancelOrderTx(r)
    \/ \E r \in Reqs : cancelOrderEmail(r)
    \/ \E id \in 1..MaxOrders, s \in OrderStatus : updateOrderStatus(id, s)
    \/ \E r \in Reqs : respond(r)

SpecLifecycle == Init /\ [][NextLifecycle]_vars


\* ----------------------------------------------------------------- reviews

\* orderItem.findFirst({ productId, order: { userId, status in [DELIVERED] } })
HasPurchased(os, its, u, p) ==
    \E i \in 1..Len(its) :
        /\ its[i].productId = p
        /\ os[its[i].orderId].userId = u
        /\ os[its[i].orderId].status = "DELIVERED"

\* review.findFirst({ userId, productId })
ExistingReview(rs, u, p) ==
    \E i \in 1..Len(rs) : rs[i].userId = u /\ rs[i].productId = p

\* POST /reviews/products/:productId : product.findUnique, 404 when the
\* product is unknown (an id outside Products)
addReviewProduct(r, u, p) ==
    /\ Free(r)
    /\ LET base == [IdleReq EXCEPT !.kind = "addReview", !.user = u,
                                   !.loc = [NoLoc EXCEPT !.productId = p]]
       IN req' = [req EXCEPT ![r] =
             IF p \notin Products THEN Done(base, "NotFound")
             ELSE [base EXCEPT !.pc = "purchased"]]
    /\ UNCHANGED <<stock, price, cart, orders, orderItems, released, reviews, addresses>>

\* addReview: the purchase check, ForbiddenError without a delivered order
addReviewPurchased(r) ==
    /\ Quiet
    /\ req[r].kind = "addReview" /\ req[r].pc = "purchased"
    /\ req' = [req EXCEPT ![r] =
          IF HasPurchased(orders, orderItems, req[r].user, req[r].loc.productId)
          THEN [req[r] EXCEPT !.pc = "existing"]
          ELSE Done(req[r], "Forbidden")]
    /\ UNCHANGED <<stock, price, cart, orders, orderItems, released, reviews, addresses>>

\* addReview: the existing-review check, ValidationError when there is one
addReviewExisting(r) ==
    /\ Quiet
    /\ req[r].kind = "addReview" /\ req[r].pc = "existing"
    /\ req' = [req EXCEPT ![r] =
          IF ExistingReview(reviews, req[r].user, req[r].loc.productId)
          THEN Done(req[r], "ValidationError")
          ELSE [req[r] EXCEPT !.pc = "create"]]
    /\ UNCHANGED <<stock, price, cart, orders, orderItems, released, reviews, addresses>>

\* addReview: review.create, then 201
addReviewCreate(r) ==
    /\ Quiet
    /\ req[r].kind = "addReview" /\ req[r].pc = "create"
    /\ reviews' = Append(reviews, [userId |-> req[r].user,
                                   productId |-> req[r].loc.productId])
    /\ req' = [req EXCEPT ![r] = Done(req[r], "Success")]
    /\ UNCHANGED <<stock, price, cart, orders, orderItems, released, addresses>>

\* One shopper orders, the admin sets statuses, every user sends reviews
NextReviews ==
    \/ \E u \in Shoppers, p \in Products, q \in 1..MaxStock :
          UnitRoom(q, MaxUnits - 1) /\ addToCart(u, p, q)
    \/ \E r \in Reqs, u \in Shoppers : createOrderRead(r, u)
    \/ \E r \in Reqs : createOrderTx(r)
    \/ \E r \in Reqs : createOrderEmail(r)
    \/ \E id \in 1..MaxOrders, s \in {"DELIVERED", "SHIPPED"} : updateOrderStatus(id, s)
    \/ \E r \in Reqs, u \in Users, p \in Products \cup {0} : addReviewProduct(r, u, p)
    \/ \E r \in Reqs : addReviewPurchased(r)
    \/ \E r \in Reqs : addReviewExisting(r)
    \/ \E r \in Reqs : addReviewCreate(r)
    \/ \E r \in Reqs : respond(r)

SpecReviews == Init /\ [][NextReviews]_vars


\* --------------------------------------------------------------- addresses

\* address.findFirst({ id, userId })
FindAddress(as, id, u) == id \in 1..Len(as) /\ as[id].live /\ as[id].userId = u

\* address.updateMany({ where: { userId, id: { not: id } }, data: { isDefault: false } });
\* addAddress passes no id (0)
UpdateMany(as, u, id) ==
    [i \in 1..Len(as) |->
        IF as[i].live /\ as[i].userId = u /\ i # id
        THEN [as[i] EXCEPT !.isDefault = FALSE] ELSE as[i]]

\* Bound on the addresses ever created, those about to be created included
Creating == {r \in Reqs : req[r].kind = "addAddress" /\ req[r].pc = "create"}
AddressRoom == Len(addresses) + Cardinality(Creating) < MaxAddresses

\* address.create({ data: { ..., isDefault, userId } })
Create(as, u, isDefault) == Append(as, [userId |-> u, isDefault |-> isDefault, live |-> TRUE])

\* POST /addresses : with isDefault the updateMany comes first and the create
\* is a later round trip; without it the create is the first one
addAddress(r, u, isDefault) ==
    /\ Free(r)
    /\ AddressRoom
    /\ LET base == [IdleReq EXCEPT !.kind = "addAddress", !.user = u]
       IN IF isDefault
          THEN /\ addresses' = UpdateMany(addresses, u, 0)
               /\ req' = [req EXCEPT ![r] =
                     [base EXCEPT !.pc = "create", !.loc = [NoLoc EXCEPT !.isDefault = TRUE]]]
          ELSE /\ addresses' = Create(addresses, u, FALSE)
               /\ req' = [req EXCEPT ![r] = Done(base, "Success")]
    /\ UNCHANGED <<stock, price, cart, orders, orderItems, released, reviews>>

\* addAddress with isDefault: address.create, then 201
addAddressCreate(r) ==
    /\ Quiet
    /\ req[r].kind = "addAddress" /\ req[r].pc = "create"
    /\ addresses' = Create(addresses, req[r].user, req[r].loc.isDefault)
    /\ req' = [req EXCEPT ![r] = Done(req[r], "Success")]
    /\ UNCHANGED <<stock, price, cart, orders, orderItems, released, reviews>>

\* PATCH /addresses/:id : findFirst, 404 when the user has no such address
updateAddress(r, u, id, isDefault) ==
    /\ Free(r)
    /\ LET base == [IdleReq EXCEPT !.kind = "updateAddress", !.user = u, !.oid = id,
                                   !.loc = [NoLoc EXCEPT !.isDefault = isDefault]]
       IN req' = [req EXCEPT ![r] =
             IF ~FindAddress(addresses, id, u) THEN Done(base, "NotFound")
             ELSE [base EXCEPT !.pc = IF isDefault THEN "updateMany" ELSE "update"]]
    /\ UNCHANGED <<stock, price, cart, orders, orderItems, released, reviews, addresses>>

\* updateAddress with isDefault: the user's other addresses lose the flag
updateAddressUpdateMany(r) ==
    /\ Quiet
    /\ req[r].kind = "updateAddress" /\ req[r].pc = "updateMany"
    /\ addresses' = UpdateMany(addresses, req[r].user, req[r].oid)
    /\ req' = [req EXCEPT ![r].pc = "update"]
    /\ UNCHANGED <<stock, price, cart, orders, orderItems, released, reviews>>

\* updateAddress: address.update({ where: { id } }), which throws when the
\* record is gone
updateAddressUpdate(r) ==
    /\ Quiet
    /\ req[r].kind = "updateAddress" /\ req[r].pc = "update"
    /\ IF addresses[req[r].oid].live
       THEN /\ addresses' = [addresses EXCEPT ![req[r].oid].isDefault = req[r].loc.isDefault]
            /\ req' = [req EXCEPT ![r] = Done(req[r], "Success")]
       ELSE /\ addresses' = addresses
            /\ req' = [req EXCEPT ![r] = Done(req[r], "Error")]
    /\ UNCHANGED <<stock, price, cart, orders, orderItems, released, reviews>>

\* DELETE /addresses/:id : findFirst, 404 when the user has no such address
deleteAddress(r, u, id) ==
    /\ Free(r)
    /\ LET base == [IdleReq EXCEPT !.kind = "deleteAddress", !.user = u, !.oid = id]
       IN req' = [req EXCEPT ![r] =
             IF ~FindAddress(addresses, id, u) THEN Done(base, "NotFound")
             ELSE [base EXCEPT !.pc = "delete"]]
    /\ UNCHANGED <<stock, price, cart, orders, orderItems, released, reviews, addresses>>

\* deleteAddress: address.delete({ where: { id } }), which throws when the
\* record is gone; a deleted address keeps its id and is never found again
deleteAddressDelete(r) ==
    /\ Quiet
    /\ req[r].kind = "deleteAddress" /\ req[r].pc = "delete"
    /\ IF addresses[req[r].oid].live
       THEN /\ addresses' = [addresses EXCEPT ![req[r].oid].live = FALSE,
                                              ![req[r].oid].isDefault = FALSE]
            /\ req' = [req EXCEPT ![r] = Done(req[r], "Success")]
       ELSE /\ addresses' = addresses
            /\ req' = [req EXCEPT ![r] = Done(req[r], "Error")]
    /\ UNCHANGED <<stock, price, cart, orders, orderItems, released, reviews>>

\* The address book of every user
NextAddresses ==
    \/ \E r \in Reqs, u \in Users, isDefault \in BOOLEAN : addAddress(r, u, isDefault)
    \/ \E r \in Reqs : addAddressCreate(r)
    \/ \E r \in Reqs, u \in Users, id \in 1..MaxAddresses, isDefault \in BOOLEAN :
          updateAddress(r, u, id, isDefault)
    \/ \E r \in Reqs : updateAddressUpdateMany(r)
    \/ \E r \in Reqs : updateAddressUpdate(r)
    \/ \E r \in Reqs, u \in Users, id \in 1..MaxAddresses : deleteAddress(r, u, id)
    \/ \E r \in Reqs : deleteAddressDelete(r)
    \/ \E r \in Reqs : respond(r)

SpecAddresses == Init /\ [][NextAddresses]_vars


\* ------------------------------------------------------------------ claims

\* sum of price x quantity over line items
RECURSIVE LineSum(_)
LineSum(items) ==
    IF items = <<>> THEN 0
    ELSE Head(items).price * Head(items).quantity + LineSum(Tail(items))

\* the step in which request r's createOrder transaction commits
CreateCommit(r) == req[r].kind = "create" /\ req[r].pc = "tx" /\ req'[r].pc = "email"

\* the step in which request r's cancelOrder transaction commits
CancelCommit(r) == req[r].kind = "cancel" /\ req[r].pc = "tx" /\ req'[r].pc = "email"

\* the step in which request r, a createOrder, arrives and reads the cart
CreateArrives(r) == req[r].pc = "idle" /\ req'[r].kind = "create"

\* the step in which request r, a cancelOrder, arrives and reads the order
CancelArrives(r) == req[r].pc = "idle" /\ req'[r].kind = "cancel"

\* C1: no product's stock is ever negative, over any interleaving of
\* createOrder and cancelOrder requests.
C1_StockNonNegative == \A p \in Products : stock[p] >= 0

\* C2: two createOrder requests of different users that each read the last
\* unit of the same product (cart of 1 unit, stock 1) never both commit:
\* one succeeds and the other fails.
LastUnit(r, p) ==
    /\ req[r].kind = "create"
    /\ Len(req[r].items) = 1
    /\ req[r].items[1].productId = p
    /\ req[r].items[1].quantity = 1
    /\ req[r].items[1].stock = 1

C2_ExactlyOneWins ==
    \A r1, r2 \in Reqs, p \in Products :
        (r1 # r2 /\ req[r1].user # req[r2].user /\ LastUnit(r1, p) /\ LastUnit(r2, p))
            => ~(req[r1].pc = "email" /\ req[r2].pc = "email")

\* C3: a createOrder that commits appends exactly one order, PENDING, owned by
\* the user, whose total is the sum of price x quantity of the cart items it
\* read; appends one order item per such cart item with the same productId,
\* quantity and price; takes each item's quantity off its product's stock;
\* and leaves the user's cart without items.
C3_PlaceOrderEffect ==
    [][\A r \in Reqs : CreateCommit(r) =>
         LET u == req[r].user
             its == req[r].items
             id == Len(orders) + 1
         IN /\ orders' = Append(orders, [userId |-> u, totalAmount |-> LineSum(its),
                                         status |-> "PENDING"])
            /\ orderItems' = orderItems \o
                 [i \in 1..Len(its) |-> [orderId |-> id, productId |-> its[i].productId,
                                         quantity |-> its[i].quantity,
                                         price |-> its[i].price]]
            /\ \A p \in Products : stock'[p] = stock[p] - UnitsOf(its, p)
            /\ cart'[u].items = <<>>
            /\ req'[r].oid = id]_vars

\* the documented example: items (B, qty 2, price 10), (A, qty 1, price 5)
\* ordered with nothing else in flight gives total 25 and an empty cart
C3_Witness ==
    \E r \in Reqs :
        /\ req[r].kind = "create" /\ req[r].pc = "email"
        /\ \A r2 \in Reqs \ {r} : req[r2].pc = "idle"
        /\ Len(req[r].items) = 2
        /\ Len(orders) = 1 /\ orders[1].totalAmount = 25
        /\ Len(orderItems) = 2
        /\ stock = [p \in Products |-> InitStock(p) - UnitsOf(orderItems, p)]
        /\ cart[req[r].user].items = <<>>

\* C4: when createOrder reads a cart in which some item's quantity exceeds
\* its product's live stock, it answers insufficient stock naming the first
\* such item of the cart, its available stock and the requested quantity,
\* and changes no order, no stock and no cart.
Lacking(u) ==
    {i \in 1..Len(cart[u].items) :
        cart[u].items[i].quantity > stock[cart[u].items[i].productId]}

C4_InsufficientStock ==
    [][\A r \in Reqs : (CreateArrives(r) /\ Lacking(req'[r].user) # {}) =>
         LET u == req'[r].user
             k == CHOOSE i \in Lacking(u) : \A j \in Lacking(u) : i <= j
         IN /\ req'[r].pc = "done"
            /\ req'[r].resp = "InsufficientStock"
            /\ req'[r].err = [productId |-> cart[u].items[k].productId,
                              available |-> stock[cart[u].items[k].productId],
                              requested |-> cart[u].items[k].quantity]
            /\ UNCHANGED <<stock, cart, orders, orderItems>>]_vars

\* a cart of two items that both lack stock is refused naming its first item
C4_Witness ==
    \E r \in Reqs :
        /\ req[r].kind = "create" /\ req[r].resp = "InsufficientStock"
        /\ Cardinality(Lacking(req[r].user)) = 2
        /\ req[r].err.productId = cart[req[r].user].items[1].productId
        /\ req[r].err.requested > req[r].err.available

\* C5: createOrder for a user whose cart does not exist or holds no item
\* answers empty cart at once (no transaction, no notification step) and
\* changes no order, no stock and no cart.
C5_EmptyCartRejected ==
    [][\A r \in Reqs :
         (CreateArrives(r) /\ (~cart[req'[r].user].exists
                               \/ cart[req'[r].user].items = <<>>)) =>
             /\ req'[r].pc = "done"
             /\ req'[r].resp = "EmptyCart"
             /\ UNCHANGED <<stock, cart, orders, orderItems>>]_vars

\* a cart that exists and holds no item is refused
C5_Witness ==
    \E r \in Reqs :
        /\ req[r].kind = "create" /\ req[r].resp = "EmptyCart"
        /\ cart[req[r].user].exists
        /\ cart[req[r].user].items = <<>>

\* C6: a transaction that fails leaves orders, order items, stock and carts
\* as they were; and every step that changes the orders' number, the order
\* items or a stock is a whole commit: a createOrder commit that adds one
\* order, all its items and their stock decrements and empties the cart, or
\* a cancelOrder commit that sets CANCELLED with every stock release.
NewItems == SubSeq(orderItems', Len(orderItems) + 1, Len(orderItems'))

WholeCreate(r) ==
    /\ CreateCommit(r)
    /\ Len(orders') = Len(orders) + 1
    /\ Len(NewItems) = Len(req[r].items)
    /\ \A i \in 1..Len(NewItems) : NewItems[i].orderId = Len(orders')
    /\ \A p \in Products : stock[p] - stock'[p] = UnitsOf(NewItems, p)
    /\ cart'[req[r].user].items = <<>>

WholeCancel(r) ==
    /\ CancelCommit(r)
    /\ orders'[req[r].oid].status = "CANCELLED"
    /\ orderItems' = orderItems
    /\ \A p \in Products : stock'[p] - stock[p] = UnitsOf(req[r].items, p)

C6_AllOrNothing ==
    [][/\ \A r \in Reqs : (req[r].pc = "tx" /\ req'[r].pc = "done") =>
             /\ req'[r].resp = "TxError"
             /\ UNCHANGED <<stock, cart, orders, orderItems>>
       /\ (Len(orders') # Len(orders) \/ orderItems' # orderItems \/ stock' # stock) =>
             \E r \in Reqs : WholeCreate(r) \/ WholeCancel(r)]_vars

\* a createOrder whose transaction failed: no order, the cart still holds its items
C6_Witness ==
    \E r \in Reqs :
        /\ req[r].kind = "create" /\ req[r].resp = "TxError"
        /\ orders = <<>> /\ orderItems = <<>>
        /\ cart[req[r].user].items # <<>>
        /\ stock = [p \in Products |-> InitStock(p)]

\* C7: every order's stored totalAmount equals the sum over its order items
\* of price x quantity, in every reachable state.
C7_TotalMatchesItems ==
    \A id \in 1..Len(orders) :
        orders[id].totalAmount = LineSum(OrderItemsOf(orderItems, id))

\* two orders of two items each, one cancelled by its owner, one shipped by the admin
C7_Witness ==
    /\ Len(orders) = 2
    /\ Len(OrderItemsOf(orderItems, 1)) = 2
    /\ Len(OrderItemsOf(orderItems, 2)) = 2
    /\ orders[1].status = "CANCELLED"
    /\ released[1] = 1
    /\ orders[2].status = "SHIPPED"

\* C8: two createOrder requests of the same user that read the same cart
\* content never both commit.
C8_OneOrderPerCart ==
    \A r1, r2 \in Reqs :
        (/\ r1 # r2
         /\ req[r1].kind = "create" /\ req[r2].kind = "create"
         /\ req[r1].user = req[r2].user
         /\ req[r1].items = req[r2].items)
            => ~(req[r1].pc = "email" /\ req[r2].pc = "email")

\* C9: every product's stock equals its initial stock minus the quantities of
\* all committed order placements plus the quantities of all committed
\* cancellations, in every reachable state.
C9_NoLostUpdate ==
    \A p \in Products :
        stock[p] = InitStock(p) - UnitsOf(orderItems, p) + released[p]

\* a placement and a cancellation on the same product, both committed while
\* both requests are in flight
C9_Witness ==
    \E r1, r2 \in Reqs, p \in Products :
        /\ req[r1].kind = "create" /\ req[r1].pc = "email"
        /\ req[r2].kind = "cancel" /\ req[r2].pc = "email"
        /\ UnitsOf(req[r1].items, p) > 0
        /\ UnitsOf(req[r2].items, p) > 0
        /\ UnitsOf(orderItems, p) >= 2

\* C10: a cancelOrder by the owner on a PENDING or PROCESSING order goes to
\* its transaction, whose commit sets CANCELLED and adds each order item's
\* quantity back to its product's stock; a cancelOrder that finds the order
\* CANCELLED answers invalid transition and changes no status and no stock.
Owned(r) == req'[r].oid <= Len(orders) /\ orders[req'[r].oid].userId = req'[r].user

C10_CancelEffect ==
    [][\A r \in Reqs :
         /\ (CancelArrives(r) /\ Owned(r)
               /\ orders[req'[r].oid].status \in {"PENDING", "PROCESSING"})
              => req'[r].pc = "tx"
         /\ CancelCommit(r) =>
              /\ orders'[req[r].oid].status = "CANCELLED"
              /\ \A p \in Products :
                   stock'[p] = stock[p]
                               + UnitsOf(OrderItemsOf(orderItems, req[r].oid), p)
         /\ (CancelArrives(r) /\ Owned(r) /\ orders[req'[r].oid].status = "CANCELLED")
              => /\ req'[r].pc = "done"
                 /\ req'[r].resp = "InvalidTransition"
                 /\ UNCHANGED <<orders, stock>>]_vars

\* a second cancelOrder on an order whose first cancellation restored the stock
C10_Witness ==
    \E r \in Reqs :
        /\ req[r].kind = "cancel" /\ req[r].resp = "InvalidTransition"
        /\ orders[req[r].oid].status = "CANCELLED"
        /\ \A p \in Products :
             released[p] = UnitsOf(OrderItemsOf(orderItems, req[r].oid), p)
        /\ \E p \in Products : released[p] = 2
        /\ stock = [p \in Products |-> InitStock(p)]

\* C11: a cancelOrder that finds its order SHIPPED, DELIVERED or CANCELLED
\* answers invalid transition and leaves every order's status and every
\* product's stock as they were.
C11_TerminalRejected ==
    [][\A r \in Reqs :
         (CancelArrives(r) /\ Owned(r)
            /\ orders[req'[r].oid].status \in {"SHIPPED", "DELIVERED", "CANCELLED"})
           => /\ req'[r].pc = "done"
              /\ req'[r].resp = "InvalidTransition"
              /\ UNCHANGED <<orders, orderItems, stock>>]_vars

\* a cancelOrder refused on a shipped order, whose units stay taken
C11_Witness ==
    \E r \in Reqs :
        /\ req[r].kind = "cancel" /\ req[r].resp = "InvalidTransition"
        /\ orders[req[r].oid].status = "SHIPPED"
        /\ released = [p \in Products |-> 0]
        /\ \E p \in Products : stock[p] < InitStock(p)

\* C12: a cancelOrder transaction never commits on an order whose stored
\* status is SHIPPED, DELIVERED or CANCELLED at the commit.
C12_NoLateCancel ==
    [][\A r \in Reqs :
         CancelCommit(r) => orders[req[r].oid].status \in {"PENDING", "PROCESSING"}]_vars

\* C13: a cancelOrder on an order id that does not exist, or whose order
\* belongs to another user, answers not found and leaves every order's
\* status and every product's stock as they were.
C13_NotFound ==
    [][\A r \in Reqs :
         (CancelArrives(r) /\ ~Owned(r))
           => /\ req'[r].pc = "done"
              /\ req'[r].resp = "NotFound"
              /\ UNCHANGED <<orders, orderItems, stock>>]_vars

\* a cancelOrder refused on a PENDING order of another user
C13_Witness ==
    \E r \in Reqs :
        /\ req[r].kind = "cancel" /\ req[r].resp = "NotFound"
        /\ req[r].oid <= Len(orders)
        /\ orders[req[r].oid].userId # req[r].user
        /\ orders[req[r].oid].status = "PENDING"

\* C14: the step that ends a cancelOrder transaction either commits, setting
\* the order CANCELLED and adding every item's quantity back to stock, or
\* fails, leaving every status and every stock as it was; and stock is
\* released in no other step.
C14_CancelAllOrNothing ==
    [][/\ \A r \in Reqs :
            (req[r].kind = "cancel" /\ req[r].pc = "tx" /\ req'[r].pc # "tx") =>
               LET its == OrderItemsOf(orderItems, req[r].oid)
               IN \/ /\ req'[r].pc = "email"
                     /\ orders'[req[r].oid].status = "CANCELLED"
                     /\ \A p \in Products : stock'[p] = stock[p] + UnitsOf(its, p)
                     /\ \A p \in Products : released'[p] = released[p] + UnitsOf(its, p)
                  \/ /\ req'[r].pc = "done"
                     /\ req'[r].resp = "TxError"
                     /\ UNCHANGED <<orders, stock, released>>
       /\ (\E p \in Products : stock'[p] > stock[p]) => \E r \in Reqs : CancelCommit(r)]_vars

\* a cancelOrder whose transaction failed on an order of two items: the
\* order is still PENDING and nothing was released
C14_Witness ==
    \E r \in Reqs :
        /\ req[r].kind = "cancel" /\ req[r].resp = "TxError"
        /\ Len(OrderItemsOf(orderItems, req[r].oid)) = 2
        /\ orders[req[r].oid].status = "PENDING"
        /\ released = [p \in Products |-> 0]
        /\ stock = [p \in Products |-> InitStock(p) - UnitsOf(orderItems, p)]

\* C15: the step after the notification email, sent or failed, answers
\* success and leaves orders, order items, stock and carts as the
\* transaction committed them.
C15_EmailFailureKeepsSuccess ==
    [][\A r \in Reqs :
         (req[r].pc = "email" /\ req'[r].pc # "email") =>
            /\ req'[r].pc = "done"
            /\ req'[r].mail \in {"sent", "failed"}
            /\ req'[r].resp = "Success"
            /\ UNCHANGED <<orders, orderItems, stock, cart, released>>]_vars

\* a cancelOrder whose email failed: it answers success, the order is
\* CANCELLED and its units are back in stock
C15_Witness ==
    \E r \in Reqs :
        /\ req[r].kind = "cancel" /\ req[r].mail = "failed" /\ req[r].resp = "Success"
        /\ orders[req[r].oid].status = "CANCELLED"
        /\ \E p \in Products : released[p] > 0
        /\ stock = [p \in Products |-> InitStock(p) - UnitsOf(orderItems, p) + released[p]]

\* C16: an email is dispatched only by a request that stands after its
\* commit; a request reaches that position only by the commit of its
\* transaction (createOrder: its order is appended; cancelOrder: its order
\* is CANCELLED); a request that answers an error has dispatched no email.
C16_EmailAfterCommit ==
    [][\A r \in Reqs :
         /\ (req[r].mail = "none" /\ req'[r].mail # "none") => req[r].pc = "email"
         /\ (req[r].pc # "email" /\ req'[r].pc = "email") =>
               /\ req[r].pc = "tx"
               /\ req[r].kind = "create" =>
                     /\ Len(orders') = Len(orders) + 1
                     /\ req'[r].oid = Len(orders')
                     /\ orders'[req'[r].oid].userId = req[r].user
               /\ req[r].kind = "cancel" =>
                     /\ orders'[req[r].oid].status = "CANCELLED"
                     /\ released' # released
         /\ (req'[r].pc = "done" /\ req'[r].resp # "Success") => req'[r].mail = "none"]_vars

\* an order-confirmation email sent for an order that is stored
C16_Witness ==
    \E r \in Reqs :
        /\ req[r].kind = "create" /\ req[r].mail = "sent"
        /\ req[r].oid = Len(orders)
        /\ orders[req[r].oid].userId = req[r].user
        /\ OrderItemsOf(orderItems, req[r].oid) # <<>>

\* C17: an order's status changes only forward along PENDING, PROCESSING,
\* SHIPPED, DELIVERED, or from PENDING or PROCESSING to CANCELLED.
Rank(status) ==
    CASE status = "PENDING" -> 1 [] status = "PROCESSING" -> 2
      [] status = "SHIPPED" -> 3 [] status = "DELIVERED" -> 4
      [] status = "CANCELLED" -> 5

C17_ForwardOnly ==
    [][\A id \in 1..Len(orders) :
         orders'[id].status # orders[id].status =>
            \/ /\ orders'[id].status # "CANCELLED"
               /\ orders[id].status # "CANCELLED"
               /\ Rank(orders'[id].status) > Rank(orders[id].status)
            \/ /\ orders'[id].status = "CANCELLED"
               /\ orders[id].status \in {"PENDING", "PROCESSING"}]_vars

\* C20: no step changes the owner or the totalAmount of an order that
\* exists, nor the order items it owns.
C20_OrderImmutable ==
    [][\A id \in 1..Len(orders) :
         /\ orders'[id].totalAmount = orders[id].totalAmount
         /\ orders'[id].userId = orders[id].userId
         /\ OrderItemsOf(orderItems', id) = OrderItemsOf(orderItems, id)]_vars

\* an order of two items cancelled by its owner and then set DELIVERED by
\* the admin still holds its items and its total
C20_Witness ==
    /\ Len(orders) >= 1
    /\ orders[1].status = "DELIVERED"
    /\ \E p \in Products : released[p] > 0
    /\ Len(OrderItemsOf(orderItems, 1)) = 2
    /\ orders[1].totalAmount = LineSum(OrderItemsOf(orderItems, 1))
    /\ orders[1].totalAmount > 0

\* C18: no step changes the price stored on a cart item that stays in the cart.
C18_CartPriceFixed ==
    [][\A u \in Users : \A i \in 1..Len(cart[u].items) :
         i <= Len(cart'[u].items) =>
            /\ cart'[u].items[i].productId = cart[u].items[i].productId
            /\ cart'[u].items[i].price = cart[u].items[i].price]_vars

\* C19: createOrder takes each line's quantity and price from the cart item
\* it read and its total from those prices x quantities, and its commit
\* stores those prices on the order items and that total on the order,
\* whatever the catalog prices are.
C19_PricedFromCart ==
    [][\A r \in Reqs :
         /\ (CreateArrives(r) /\ req'[r].pc = "tx") =>
               LET its == cart[req'[r].user].items
               IN /\ Len(req'[r].items) = Len(its)
                  /\ \A i \in 1..Len(its) :
                        /\ req'[r].items[i].productId = its[i].productId
                        /\ req'[r].items[i].quantity = its[i].quantity
                        /\ req'[r].items[i].price = its[i].price
                  /\ req'[r].total = LineSum(its)
         /\ CreateCommit(r) =>
               /\ Len(NewItems) = Len(req[r].items)
               /\ \A i \in 1..Len(NewItems) : NewItems[i].price = req[r].items[i].price
               /\ orders'[Len(orders')].totalAmount = LineSum(req[r].items)]_vars

\* an order just committed whose line price differs from the catalog price
\* its request read at checkout
C19_Witness ==
    \E r \in Reqs :
        /\ req[r].kind = "create" /\ req[r].pc = "email"
        /\ \A r2 \in Reqs \ {r} : req[r2].pc = "idle"
        /\ Len(req[r].items) = 1
        /\ req[r].items[1].price # price[req[r].items[1].productId]
        /\ req[r].items[1].quantity = 2
        /\ orders[req[r].oid].totalAmount = 2 * req[r].items[1].price
        /\ OrderItemsOf(orderItems, req[r].oid)[1].price = req[r].items[1].price

\* C21: getOrder answers the order when it belongs to the requesting user
\* and not found otherwise; getUserOrders and getOrders answer only orders
\* of the requesting user, getOrders all of them.
ReadArrives(r, kind) == req[r].pc = "idle" /\ req'[r].kind = kind

InView(r, id) == \E i \in 1..Len(req'[r].view) : req'[r].view[i] = id

C21_ReadsScoped ==
    [][\A r \in Reqs :
         /\ ReadArrives(r, "getOrder") =>
               IF req'[r].oid <= Len(orders)
                  /\ orders[req'[r].oid].userId = req'[r].user
               THEN req'[r].resp = "Success" /\ req'[r].view = <<req'[r].oid>>
               ELSE req'[r].resp = "NotFound" /\ req'[r].view = <<>>
         /\ (ReadArrives(r, "getUserOrders") \/ ReadArrives(r, "getOrders")) =>
               \A id \in 1..Len(orders) :
                   InView(r, id) => orders[id].userId = req'[r].user
         /\ ReadArrives(r, "getOrders") =>
               \A id \in 1..Len(orders) :
                   orders[id].userId = req'[r].user => InView(r, id)]_vars

\* both users hold an order; a list read answers one order, the reader's
C21_Witness ==
    \E r \in Reqs :
        /\ req[r].kind = "getOrders" /\ req[r].pc = "done"
        /\ Len(orders) = 2 /\ orders[1].userId # orders[2].userId
        /\ Len(req[r].view) = 1
        /\ orders[req[r].view[1]].userId = req[r].user

\* C22: every createOrder and cancelOrder request that awaits its
\* transaction or its notification email eventually answers, with success
\* or with an error, and its slot is freed.
C22_RequestsFinish ==
    \A r \in Reqs :
        /\ (req[r].pc \in {"tx", "email"}) ~>
              (req[r].pc = "done"
                 /\ req[r].resp \in {"Success", "TxError"})
        /\ (req[r].pc = "done") ~> (req[r].pc = "idle")

\* a createOrder awaiting its email while a cancelOrder awaits its transaction
C22_Witness ==
    \E r1, r2 \in Reqs :
        /\ req[r1].kind = "create" /\ req[r1].pc = "email"
        /\ req[r2].kind = "cancel" /\ req[r2].pc = "tx"

\* C23: every cart item's quantity is at least 1 in every reachable state,
\* and an addToCart or updateCartItem request asking for a quantity below 1
\* answers a validation error and leaves the carts as they were.
C23_QuantityPositive ==
    /\ [](\A u \in Users : \A i \in 1..Len(cart[u].items) :
             cart[u].items[i].quantity >= 1)
    /\ [][\A r \in Reqs :
            ((ReadArrives(r, "addToCart") \/ ReadArrives(r, "updateCartItem"))
               /\ req'[r].loc.quantity < 1)
              => /\ req'[r].pc = "done"
                 /\ req'[r].resp = "ValidationError"
                 /\ cart' = cart]_vars

\* an updateCartItem asking for quantity 0 on a cart that holds an item of
\* quantity 2 is refused
C23_Witness ==
    \E r \in Reqs :
        /\ req[r].kind = "updateCartItem" /\ req[r].resp = "ValidationError"
        /\ req[r].loc.quantity = 0
        /\ Len(cart[req[r].user].items) = 1
        /\ cart[req[r].user].items[1].quantity = 2

\* C27: when a createOrder commits, every item it deletes from the cart is
\* a line of the order with the same productId and quantity.
C27_DeletesOnlyOrdered ==
    [][\A r \in Reqs : CreateCommit(r) =>
         LET its == cart[req[r].user].items
         IN \A i \in 1..Len(its) :
               \E j \in 1..Len(req[r].items) :
                   /\ its[i].productId = req[r].items[j].productId
                   /\ its[i].quantity = req[r].items[j].quantity]_vars

\* C28: no cart holds two items of the same product.
C28_OneItemPerProduct ==
    \A u \in Users : \A i, j \in 1..Len(cart[u].items) :
        cart[u].items[i].productId = cart[u].items[j].productId => i = j

\* C24: a request to an admin route by a user whose role is not ADMIN
\* answers an authentication error and changes no order, stock or price;
\* an order's status and a product's price change only in a step of a
\* request by a user whose role is ADMIN.
AdminArrives(r) == ReadArrives(r, "patchOrderStatus") \/ ReadArrives(r, "patchProduct")

C24_AdminOnly ==
    [][/\ \A r \in Reqs :
            (AdminArrives(r) /\ Role(req'[r].user) # "ADMIN")
              => /\ req'[r].resp = "AuthenticationError"
                 /\ UNCHANGED <<orders, orderItems, stock, price>>
       /\ ((\E id \in 1..Len(orders) : orders'[id].status # orders[id].status)
             \/ price' # price)
              => \E r \in Reqs : AdminArrives(r) /\ Role(req'[r].user) = "ADMIN"]_vars

\* a customer's request to set a PENDING order's status is refused
C24_Witness ==
    \E r \in Reqs :
        /\ req[r].kind = "patchOrderStatus" /\ req[r].resp = "AuthenticationError"
        /\ Role(req[r].user) = "CUSTOMER"
        /\ req[r].oid <= Len(orders)
        /\ orders[req[r].oid].status = "PENDING"

\* C25: for every product, its stock plus the quantities of its order items
\* in orders that are not CANCELLED equals its initial stock.
HeldItems == SelectSeq(orderItems, LAMBDA it : orders[it.orderId].status # "CANCELLED")

C25_StockConserved ==
    \A p \in Products : stock[p] + UnitsOf(HeldItems, p) = InitStock(p)

\* C26: for every product, the quantity that cancellations added back never
\* exceeds the quantity that orders took (if every order released at most
\* what it took, the sums over the orders would compare the same way).
C26_ReleasedAtMostOnce ==
    \A p \in Products : released[p] <= UnitsOf(orderItems, p)

\* C29: a user has at most one review per product.
C29_OneReviewPerProduct ==
    \A i, j \in 1..Len(reviews) :
        (reviews[i].userId = reviews[j].userId
           /\ reviews[i].productId = reviews[j].productId) => i = j

\* C30: a user has at most one default address.
C30_OneDefault ==
    \A u \in Users : \A i, j \in 1..Len(addresses) :
        (/\ addresses[i].live /\ addresses[i].userId = u /\ addresses[i].isDefault
         /\ addresses[j].live /\ addresses[j].userId = u /\ addresses[j].isDefault)
          => i = j

=============================================================================
